---- MODULE Spec2Model ----
(***************************************************************************)
(* A model of the gym-music reward environment:                            *)
(*   music/music_env.py         MusicEnv         (_step, _reset)           *)
(*   music/music_theory_env.py  MusicTheoryEnv   (rewards and detectors)   *)
(*                                                                         *)
(* An environment object is the record `self` of its instance attributes;  *)
(* an attribute that was never assigned is absent from DOMAIN self, and a  *)
(* read of it raises AttributeError as in Python.  `last` records the last *)
(* call made on the object and what it returned or raised.  Rewards are    *)
(* kept in thousandths (3.0 is 3000, 0.1 is 100) and interval categories   *)
(* in halves (HOLD_INTERVAL -1.5 is -3) so that they stay integers.        *)
(***************************************************************************)
EXTENDS Integers, Sequences, FiniteSets, TLC

VARIABLES cls, self, last, played

vars == <<cls, self, last, played>>

----------------------------------------------------------------------------
(* Vocabulary: music/util.py is imported with * and is not among the       *)
(* sources; the values follow the Magenta RL-tuner encoding the literals   *)
(* of detect_sequential_interval (c_notes = [2, 14, 26] ...) belong to.    *)

NOTE_OFF == 0

NO_EVENT == 1

NUM_CLASSES == 38

C_MAJOR_TONIC == 14

BEATS_PER_BAR == 8

C_MAJOR_KEY ==
    {0, 1, 2, 4, 6, 7, 9, 11, 13, 14, 16, 18, 19, 21, 23, 25, 26, 28, 30, 31,
     33, 35, 37}

(* rl_tuner_ops: intervals in semitones, special categories negative.      *)
(* Categories are doubled (see IntervalUnit) because HOLD_INTERVAL is -1.5 *)
IntervalUnit == 2

OCTAVE == 12

FIFTH == 7

THIRD == 4

SIXTH == 9

SECOND == 2

FOURTH == 5

SEVENTH == 11

REST_INTERVAL == -2

HOLD_INTERVAL == -3

REST_INTERVAL_AFTER_THIRD_OR_FIFTH == -4

HOLD_INTERVAL_AFTER_THIRD_OR_FIFTH == -5

IN_KEY_THIRD == -6

IN_KEY_FIFTH == -10

(* One reward point in the model's fixed-point unit.                       *)
RewardUnit == 1000

----------------------------------------------------------------------------
(* Bounds of the model.                                                    *)

(* self.composition_length, 64 in MusicEnv.__init__, scaled down so that   *)
(* whole episodes can be enumerated.                                       *)
CompositionLength == 4

(* Steps taken after the step that reports done.                           *)
ExtraSteps == 1

(* Longest composition handed to detect_repeating_notes.                   *)
MaxRepeatLen == 9

(* Longest composition over the four-code alphabet (break code included).  *)
MaxBreakLen == 5

(* Bar lengths 1..MaxBar and compositions up to MaxMotifLen for the motif  *)
(* detectors.                                                              *)
MaxBar == 4

MaxMotifLen == 7

(* Longest composition of the motif detectors that also holds rests.       *)
MaxRestLen == 4

(* Longest composition handed to detect_sequential_interval.               *)
MaxIntervalLen == 3

----------------------------------------------------------------------------
(* Python values.                                                          *)

None == [is_none |-> TRUE, list |-> <<>>]

Some(l) == [is_none |-> FALSE, list |-> l]

NoValue == "none"

Returned(v) == [exc |-> "none", value |-> v]

Raised(e) == [exc |-> e, value |-> NoValue]

Max(a, b) == IF a >= b THEN a ELSE b

Abs(x) == IF x < 0 THEN -x ELSE x

Has(s, attr) == attr \in DOMAIN s

(* set(xs) of a list                                                       *)
SetOf(xs) == {xs[i] : i \in 1..Len(xs)}

(* [a for a in xs if a != NO_EVENT and a != NOTE_OFF]                      *)
ActualNotes(xs) == SelectSeq(xs, LAMBDA a : a # NO_EVENT /\ a # NOTE_OFF)

(* All sequences over S of length 0..n.                                    *)
SeqsUpTo(S, n) == UNION {[1..k -> S] : k \in 0..n}

----------------------------------------------------------------------------
(* MusicTheoryEnv.reward_key                                               *)
reward_key(action) == IF action \notin C_MAJOR_KEY THEN -1 * RewardUnit ELSE 0

(* The backward scan of detect_repeating_notes, from index i (1-based)     *)
(* down to 1: the for loop with its three counting branches and its break. *)
RECURSIVE RepeatScan(_, _, _, _)
RepeatScan(composition, action, i, acc) ==
    IF i < 1 THEN acc
    ELSE IF composition[i] = action
         THEN RepeatScan(composition, action, i - 1,
                  [acc EXCEPT !.num_repeated = @ + 1])
    ELSE IF composition[i] = NOTE_OFF
         THEN RepeatScan(composition, action, i - 1,
                  [acc EXCEPT !.contains_breaks = TRUE])
    ELSE IF composition[i] = NO_EVENT
         THEN RepeatScan(composition, action, i - 1,
                  [acc EXCEPT !.contains_held_notes = TRUE])
    ELSE acc

(* Mutant: the chain with the no-interleave threshold on every run.        *)
RepeatVerdict_SameThreshold(action, scan) ==
    IF action = NOTE_OFF /\ scan.num_repeated > 1
    THEN [value |-> TRUE, branch |-> "note_off"]
    ELSE IF ~scan.contains_held_notes /\ ~scan.contains_breaks
    THEN [value |-> scan.num_repeated > 4, branch |-> "plain"]
    ELSE [value |-> scan.num_repeated > 4, branch |-> "interleaved"]

(* The if / elif chain that ends detect_repeating_notes: the verdict and   *)
(* the branch of the chain that was entered.                               *)
RepeatVerdict(action, scan) ==
    IF action = NOTE_OFF /\ scan.num_repeated > 1
    THEN [value |-> TRUE, branch |-> "note_off"]
    ELSE IF ~scan.contains_held_notes /\ ~scan.contains_breaks
    THEN [value |-> scan.num_repeated > 4, branch |-> "plain"]
    ELSE IF scan.contains_held_notes \/ scan.contains_breaks
    THEN [value |-> scan.num_repeated > 6, branch |-> "interleaved"]
    ELSE [value |-> scan.num_repeated > 8, branch |-> "else"]

(* Mutant: the scan starts at the last element, so that the action just    *)
(* appended counts as a repeat of itself.                                  *)
detect_repeating_notes_FromLast(composition, action) ==
    RepeatVerdict(action,
        RepeatScan(composition, action, Len(composition),
            [num_repeated |-> 0, contains_held_notes |-> FALSE,
             contains_breaks |-> FALSE]))

(* MusicTheoryEnv.detect_repeating_notes; range(len - 2, -1, -1) is the    *)
(* 1-based indices len - 1 down to 1.                                      *)
detect_repeating_notes(composition, action) ==
    RepeatVerdict(action,
        RepeatScan(composition, action, Len(composition) - 1,
            [num_repeated |-> 0, contains_held_notes |-> FALSE,
             contains_breaks |-> FALSE]))

(* MusicTheoryEnv.reward_non_repeating: 0.1 unless the note repeats.       *)
reward_non_repeating(composition, action) ==
    IF ~detect_repeating_notes(composition, action).value
    THEN RewardUnit \div 10 ELSE 0

(* MusicTheoryEnv.reward_tonic: reads self.num_notes and self.beat.        *)
reward_tonic(s, action) ==
    IF ~Has(s, "num_notes") THEN Raised("AttributeError")
    ELSE IF ~Has(s, "beat") THEN Raised("AttributeError")
    ELSE LET first_note_of_final_bar == s.num_notes - 4
             reward_amount == 3 * RewardUnit
         IN  IF s.beat = 0 \/ s.beat = first_note_of_final_bar
             THEN Returned(IF action = C_MAJOR_TONIC THEN reward_amount ELSE 0)
             ELSE IF s.beat = first_note_of_final_bar + 1
             THEN Returned(IF action = NO_EVENT THEN reward_amount ELSE 0)
             ELSE IF s.beat > first_note_of_final_bar + 1
             THEN Returned(IF action = NO_EVENT \/ action = NOTE_OFF
                           THEN reward_amount ELSE 0)
             ELSE Returned(0)

(* Mutant: the notes of the bar are counted without set().                 *)
detect_last_motif_NoSet(composition, bar_length) ==
    IF Len(composition) < bar_length THEN <<None, 0>>
    ELSE LET last_bar == SubSeq(composition,
                             Len(composition) - bar_length + 1,
                             Len(composition))
             num_unique_notes == Len(ActualNotes(last_bar))
         IN  IF num_unique_notes >= 3
             THEN <<Some(last_bar), num_unique_notes>>
             ELSE <<None, num_unique_notes>>

(* MusicTheoryEnv.detect_last_motif: (motif or None, num_unique_notes).    *)
detect_last_motif(composition, bar_length) ==
    IF Len(composition) < bar_length THEN <<None, 0>>
    ELSE LET last_bar == SubSeq(composition,
                             Len(composition) - bar_length + 1,
                             Len(composition))
             num_unique_notes == Cardinality(SetOf(ActualNotes(last_bar)))
         IN  IF num_unique_notes >= 3
             THEN <<Some(last_bar), num_unique_notes>>
             ELSE <<None, num_unique_notes>>

(* MusicTheoryEnv.reward_motif: always the default bar length.             *)
reward_motif(composition, action) ==
    LET found == detect_last_motif(composition, BEATS_PER_BAR)
    IN  IF ~found[1].is_none
        THEN 3 * RewardUnit + Max((found[2] - 3) * 3 * (RewardUnit \div 10), 0)
        ELSE 0

(* The inner for / else of detect_repeated_motif: motif at offset i.       *)
MotifAt(prev_composition, motif, i) ==
    \A j \in 0..(Len(motif) - 1) : prev_composition[i + j + 1] = motif[j + 1]

(* The outer for of detect_repeated_motif, offsets i .. n - 1, first match *)
(* wins.                                                                   *)
RECURSIVE MotifSearch(_, _, _, _)
MotifSearch(prev_composition, motif, i, n) ==
    IF i >= n THEN FALSE
    ELSE IF MotifAt(prev_composition, motif, i) THEN TRUE
    ELSE MotifSearch(prev_composition, motif, i + 1, n)

(* Mutant: the slice [:-(bar_length - 1)], one element too long.            *)
PrevComposition_OffByOne(composition, bar_length) ==
    SubSeq(composition, 1, Len(composition) - (bar_length - 1))

(* prev_composition = self.composition[:-(bar_length - 1) - 1]: all but    *)
(* the last bar_length elements.                                           *)
PrevComposition(composition, bar_length) ==
    SubSeq(composition, 1, Len(composition) - bar_length)

(* MusicTheoryEnv.detect_repeated_motif: (is_repeated, motif or None).     *)
detect_repeated_motif(composition, action, bar_length) ==
    IF Len(composition) < bar_length THEN <<FALSE, None>>
    ELSE LET motif == detect_last_motif(composition, bar_length)[1]
         IN  IF motif.is_none THEN <<FALSE, None>>
             ELSE LET prev_composition ==
                          PrevComposition(composition, bar_length)
                  IN  IF MotifSearch(prev_composition, motif.list, 0,
                             Len(prev_composition) - Len(motif.list) + 1)
                      THEN <<TRUE, motif>>
                      ELSE <<FALSE, None>>

(* Mutant: the bonus is paid for the last motif, repeated or not.          *)
reward_repeated_motif_AnyMotif(composition, action, bar_length) ==
    LET found == detect_last_motif(composition, bar_length)
    IN  IF ~found[1].is_none
        THEN 4 * RewardUnit + Max(found[2] - 3, 0) * RewardUnit
        ELSE 0

(* MusicTheoryEnv.reward_repeated_motif                                    *)
reward_repeated_motif(composition, action, bar_length) ==
    LET found == detect_repeated_motif(composition, action, bar_length)
    IN  IF found[1]
        THEN LET num_notes_in_motif ==
                     Cardinality(SetOf(ActualNotes(found[2].list)))
             IN  4 * RewardUnit + Max(num_notes_in_motif - 3, 0) * RewardUnit
        ELSE 0

(* The while loop of detect_sequential_interval that skips holds and rests *)
(* backwards; prev_note_index is the Python (0-based) index.               *)
RECURSIVE PrevNoteScan(_, _, _)
PrevNoteScan(composition, prev_note, prev_note_index) ==
    IF (prev_note = NO_EVENT \/ prev_note = NOTE_OFF) /\ prev_note_index >= 0
    THEN PrevNoteScan(composition, composition[prev_note_index + 1],
             prev_note_index - 1)
    ELSE prev_note

(* The literals of detect_sequential_interval (key is None).               *)
c_notes == {2, 14, 26}

g_notes == {9, 21, 33}

e_notes == {6, 18, 30}

tonic_notes == {2, 14, 26}

fifth_notes == {9, 21, 33}

(* Mutant: the difference without abs().                                   *)
Interval_Signed(action, prev_note) == action - prev_note

(* interval = abs(action - prev_note)                                      *)
Interval(action, prev_note) == Abs(action - prev_note)

(* MusicTheoryEnv.detect_sequential_interval with key=None:                *)
(* (interval, action, prev_note), or IndexError from composition[-2].      *)
(* The tf.logging.debug calls write a log line and nothing else.           *)
detect_sequential_interval(composition, action) ==
    IF Len(composition) < 2 THEN Raised("IndexError")
    ELSE LET prev_note ==
                 PrevNoteScan(composition, composition[Len(composition) - 1],
                     Len(composition) - 2)
             interval == Interval(action, prev_note)
         IN  IF prev_note = NOTE_OFF \/ prev_note = NO_EVENT
             THEN Returned(<<0, action, prev_note>>)
             ELSE IF action = NO_EVENT
             THEN IF prev_note \in tonic_notes \/ prev_note \in fifth_notes
                  THEN Returned(<<HOLD_INTERVAL_AFTER_THIRD_OR_FIFTH, action,
                                  prev_note>>)
                  ELSE Returned(<<HOLD_INTERVAL, action, prev_note>>)
             ELSE IF action = NOTE_OFF
             THEN IF prev_note \in tonic_notes \/ prev_note \in fifth_notes
                  THEN Returned(<<REST_INTERVAL_AFTER_THIRD_OR_FIFTH, action,
                                  prev_note>>)
                  ELSE Returned(<<REST_INTERVAL, action, prev_note>>)
             ELSE IF interval = FIFTH
                     /\ (prev_note \in c_notes \/ prev_note \in g_notes)
             THEN Returned(<<IN_KEY_FIFTH, action, prev_note>>)
             ELSE IF interval = THIRD
                     /\ (prev_note \in c_notes \/ prev_note \in e_notes)
             THEN Returned(<<IN_KEY_THIRD, action, prev_note>>)
             ELSE Returned(<<IntervalUnit * interval, action, prev_note>>)

(* One `if cond: reward = v` of reward_preferred_intervals.                *)
Assign(reward, cond, v) == IF cond THEN v ELSE reward

(* The category -> reward table of reward_preferred_intervals, in the      *)
(* order of its if statements (a later match overwrites an earlier one).   *)
IntervalReward(interval) ==
    LET r0  == 0
        r1  == Assign(r0, interval = REST_INTERVAL, 50)
        r2  == Assign(r1, interval = HOLD_INTERVAL, 75)
        r3  == Assign(r2, interval = REST_INTERVAL_AFTER_THIRD_OR_FIFTH, 150)
        r4  == Assign(r3, interval = HOLD_INTERVAL_AFTER_THIRD_OR_FIFTH, 300)
        r5  == Assign(r4, interval = IntervalUnit * SEVENTH, -300)
        r6  == Assign(r5, interval > IntervalUnit * OCTAVE, -1000)
        r7  == Assign(r6, interval = IN_KEY_FIFTH, 100)
        r8  == Assign(r7, interval = IN_KEY_THIRD, 150)
        r9  == Assign(r8, interval = IntervalUnit * THIRD, 90)
        r10 == Assign(r9, interval = IntervalUnit * SECOND, 80)
        r11 == Assign(r10, interval = IntervalUnit * FOURTH, 70)
        r12 == Assign(r11, interval = IntervalUnit * SIXTH, 50)
        r13 == Assign(r12, interval = IntervalUnit * FIFTH, 20)
    IN  r13

(* MusicTheoryEnv.reward_preferred_intervals with scaler=5.0, key=None.    *)
reward_preferred_intervals(composition, action) ==
    LET found == detect_sequential_interval(composition, action)
    IN  IF found.exc # "none" THEN Raised(found.exc)
        ELSE IF found.value[1] = 0 THEN Returned(0)
        ELSE Returned(IntervalReward(found.value[1]) * 5)

----------------------------------------------------------------------------
(* The environment object and its step loop.                               *)

(* MusicEnv.__init__: the instance attributes it assigns.  The two spaces  *)
(* are gym objects that no method reads.  num_notes is not assigned.       *)
MusicEnv_init ==
    [observation_space |-> NUM_CLASSES, action_space |-> NUM_CLASSES,
     composition_length |-> CompositionLength]

(* MusicEnv._reset: the object after the two assignments.                  *)
MusicEnv_reset(s) ==
    [observation_space |-> s.observation_space,
     action_space |-> s.action_space,
     composition_length |-> s.composition_length,
     composition |-> <<>>, beat |-> 0]

(* What one call leaves: the object, and the value returned or the         *)
(* exception raised.  parts are the reward terms a step summed.            *)
Outcome(s, res, parts) ==
    [self |-> s, exc |-> res.exc, value |-> res.value, parts |-> parts]

(* Mutant: the action is inserted at the front of the composition.         *)
MusicEnv_step_update_Prepend(s, action) ==
    [s EXCEPT !.composition = <<action>> \o @, !.beat = @ + 1]

(* self.composition.append(action); self.beat += 1                         *)
MusicEnv_step_update(s, action) ==
    [s EXCEPT !.composition = Append(@, action), !.beat = @ + 1]

(* The done flag of MusicEnv._step's return statement.                     *)
MusicEnv_step_done(s) == s.beat = s.composition_length

(* MusicEnv._step: append, count the beat, return                          *)
(* (action, 0, done, {}).  Before _reset there is no self.composition.     *)
MusicEnv_step(s, action) ==
    IF ~Has(s, "composition") THEN Outcome(s, Raised("AttributeError"), NoValue)
    ELSE LET s1 == MusicEnv_step_update(s, action)
         IN  Outcome(s1,
                 Returned([state |-> action, reward |-> 0,
                           done |-> MusicEnv_step_done(s1)]),
                 NoValue)

(* MusicTheoryEnv._step: the base step, then the five reward terms in the  *)
(* order of the source; an exception in a term leaves the step at once,    *)
(* with the composition already extended.                                  *)
MusicTheoryEnv_step(s, action) ==
    LET base == MusicEnv_step(s, action)
    IN  IF base.exc # "none" THEN base
        ELSE LET s1 == base.self
                 tonic == reward_tonic(s1, action)
             IN  IF tonic.exc # "none"
                 THEN Outcome(s1, Raised(tonic.exc), NoValue)
                 ELSE LET parts ==
                              [tonic |-> tonic.value,
                               key |-> reward_key(action),
                               non_repeating |->
                                   reward_non_repeating(s1.composition, action),
                               motif |-> reward_motif(s1.composition, action),
                               repeated_motif |->
                                   reward_repeated_motif(s1.composition,
                                       action, BEATS_PER_BAR)]
                      IN  Outcome(s1,
                              Returned([state |-> base.value.state,
                                        reward |-> base.value.reward
                                            + parts.tonic + parts.key
                                            + parts.non_repeating + parts.motif
                                            + parts.repeated_motif,
                                        done |-> base.value.done]),
                              parts)

(* The record of a call: its name and arguments, and its outcome.          *)
Call(op, action, bar_length, exc, value, parts) ==
    [op |-> op, action |-> action, bar_length |-> bar_length,
     exc |-> exc, value |-> value, parts |-> parts]

NoCall == Call("none", NoValue, NoValue, "none", NoValue, NoValue)

(* Codes fed to episodes: a rest, the tonic and the fifth above it.        *)
EpisodeNotes == {NOTE_OFF, C_MAJOR_TONIC, 21}

(* A freshly constructed environment of either class.                      *)
Init ==
    /\ cls \in {"MusicEnv", "MusicTheoryEnv"}
    /\ self = MusicEnv_init
    /\ last = NoCall
    /\ played = <<>>

(* env.reset(): MusicEnv._reset, shared by both classes; the observation   *)
(* is random.randint(0, NUM_CLASSES - 1).                                  *)
Reset ==
    /\ \E state \in 0..(NUM_CLASSES - 1) :
           last' = Call("reset", NoValue, NoValue, "none", state, NoValue)
    /\ self' = MusicEnv_reset(self)
    /\ played' = <<>>
    /\ UNCHANGED cls

(* env.step(action), dispatched on the class of the object.                *)
Step(action) ==
    /\ Has(self, "beat") => self.beat < self.composition_length + ExtraSteps
    /\ LET out == IF cls = "MusicTheoryEnv"
                  THEN MusicTheoryEnv_step(self, action)
                  ELSE MusicEnv_step(self, action)
       IN  /\ self' = out.self
           /\ last' = Call("step", action, NoValue, out.exc, out.value,
                           out.parts)
           /\ played' = IF Has(self, "composition")
                        THEN Append(played, action) ELSE played
    /\ UNCHANGED cls

Next ==
    \/ Reset
    \/ \E action \in EpisodeNotes : Step(action)

Spec == Init /\ [][Next]_vars

----------------------------------------------------------------------------
(* Direct calls of the detectors and reward terms, which are public        *)
(* methods of MusicTheoryEnv, on an object that has played a composition.  *)

(* The object after _reset and one step per element of c.                  *)
After(c) ==
    [MusicEnv_reset(MusicEnv_init) EXCEPT !.composition = c, !.beat = Len(c)]

(* The states in which the object has played one of the compositions cs.   *)
Given(cs) ==
    /\ cls = "MusicTheoryEnv"
    /\ \E c \in cs : self = After(c) /\ played = c
    /\ last = NoCall

(* env.detect_repeating_notes(action); parts is the branch entered.        *)
CallDetectRepeatingNotes(action) ==
    /\ LET out == detect_repeating_notes(self.composition, action)
       IN  last' = Call("detect_repeating_notes", action, NoValue, "none",
                        out.value, out.branch)
    /\ UNCHANGED <<cls, self, played>>

(* env.reward_non_repeating(action)                                        *)
CallRewardNonRepeating(action) ==
    /\ last' = Call("reward_non_repeating", action, NoValue, "none",
                    reward_non_repeating(self.composition, action), NoValue)
    /\ UNCHANGED <<cls, self, played>>

(* The rest, the hold and one sounded pitch; with a second pitch, which    *)
(* breaks a run of the first.                                              *)
RepeatNotes == {NOTE_OFF, NO_EVENT, 5}

BreakNotes == RepeatNotes \cup {7}

InitRepeat ==
    Given(SeqsUpTo(RepeatNotes, MaxRepeatLen)
          \cup SeqsUpTo(BreakNotes, MaxBreakLen))

NextRepeat ==
    \/ \E action \in BreakNotes : CallDetectRepeatingNotes(action)
    \/ \E action \in BreakNotes : CallRewardNonRepeating(action)

SpecRepeat == InitRepeat /\ [][NextRepeat]_vars

----------------------------------------------------------------------------
(* The motif detectors on compositions of a few bars.                      *)

(* env.detect_last_motif(env.composition, bar_length)                      *)
CallDetectLastMotif(bar_length) ==
    /\ last' = Call("detect_last_motif", NoValue, bar_length, "none",
                    detect_last_motif(self.composition, bar_length), NoValue)
    /\ UNCHANGED <<cls, self, played>>

(* env.detect_repeated_motif(action, bar_length)                           *)
CallDetectRepeatedMotif(action, bar_length) ==
    /\ last' = Call("detect_repeated_motif", action, bar_length, "none",
                    detect_repeated_motif(self.composition, action, bar_length),
                    NoValue)
    /\ UNCHANGED <<cls, self, played>>

(* env.reward_repeated_motif(action, bar_length)                           *)
CallRewardRepeatedMotif(action, bar_length) ==
    /\ last' = Call("reward_repeated_motif", action, bar_length, "none",
                    reward_repeated_motif(self.composition, action, bar_length),
                    NoValue)
    /\ UNCHANGED <<cls, self, played>>

(* The hold and three pitches; with the rest as well.                      *)
MotifNotes == {NO_EVENT, 2, 3, 4}

RestNotes == MotifNotes \cup {NOTE_OFF}

BarLengths == 1..MaxBar

(* The action of a call is the note played last.                           *)
LastPlayed == IF Len(played) = 0 THEN {NO_EVENT} ELSE {played[Len(played)]}

InitMotif ==
    Given(SeqsUpTo(MotifNotes, MaxMotifLen) \cup SeqsUpTo(RestNotes, MaxRestLen))

NextMotif ==
    \/ \E bar_length \in BarLengths : CallDetectLastMotif(bar_length)
    \/ \E action \in LastPlayed, bar_length \in BarLengths :
           CallDetectRepeatedMotif(action, bar_length)
    \/ \E action \in LastPlayed, bar_length \in BarLengths :
           CallRewardRepeatedMotif(action, bar_length)

SpecMotif == InitMotif /\ [][NextMotif]_vars

----------------------------------------------------------------------------
(* The interval classifier on short compositions.                          *)

(* env.detect_sequential_interval(action)                                  *)
CallDetectSequentialInterval(action) ==
    /\ LET out == detect_sequential_interval(self.composition, action)
       IN  last' = Call("detect_sequential_interval", action, NoValue,
                        out.exc, out.value, NoValue)
    /\ UNCHANGED <<cls, self, played>>

(* env.reward_preferred_intervals(action)                                  *)
CallRewardPreferredIntervals(action) ==
    /\ LET out == reward_preferred_intervals(self.composition, action)
       IN  last' = Call("reward_preferred_intervals", action, NoValue,
                        out.exc, out.value, NoValue)
    /\ UNCHANGED <<cls, self, played>>

(* Rest, hold, and pitches a second, third, fourth, fifth, sixth, seventh  *)
(* and more than an octave apart, the C, E and G of the literals included. *)
IntervalNotes == {NOTE_OFF, NO_EVENT, 2, 6, 9, 10, 14, 16, 21, 37}

InitInterval == Given(SeqsUpTo(IntervalNotes, MaxIntervalLen))

NextInterval ==
    \/ \E action \in LastPlayed : CallDetectSequentialInterval(action)
    \/ \E action \in LastPlayed : CallRewardPreferredIntervals(action)

SpecInterval == InitInterval /\ [][NextInterval]_vars

----------------------------------------------------------------------------
(* Properties of episodes (Spec).                                          *)

InEpisode == Has(self, "composition")

(* C1: in an episode started by reset, the k-th step returns a done flag,  *)
(* and the flag is true exactly when k equals the composition length.      *)
C1_DoneExactlyAtLength ==
    (InEpisode /\ last.op = "step") =>
        /\ last.exc = "none"
        /\ last.value.done <=> (Len(played) = self.composition_length)

(* C2: after reset and steps with actions a1..ak the composition is        *)
(* exactly <<a1, ..., ak>> and beat is k; reset leaves both empty / 0.     *)
C2_CompositionIsPlayed ==
    /\ InEpisode => (self.composition = played /\ self.beat = Len(played))
    /\ (InEpisode /\ last.op = "reset") =>
           (self.composition = <<>> /\ self.beat = 0)

(* C2 witness: a MusicTheoryEnv that has stepped three different codes.    *)
C2_Witness ==
    /\ cls = "MusicTheoryEnv" /\ InEpisode /\ last.op = "step"
    /\ self.composition = <<C_MAJOR_TONIC, NOTE_OFF, 21>>

(* C8: the first step after reset contributes a tonic reward of exactly 3  *)
(* when its action is the tonic and 0 when it is any other code.           *)
C8_FirstStepTonicReward ==
    (cls = "MusicTheoryEnv" /\ InEpisode /\ last.op = "step"
        /\ Len(played) = 1) =>
        /\ last.exc = "none"
        /\ last.parts.tonic =
               (IF last.action = C_MAJOR_TONIC THEN 3 * RewardUnit ELSE 0)

----------------------------------------------------------------------------
(* Properties of detect_repeating_notes (SpecRepeat).                      *)

(* The composition is k copies of the code p.                              *)
AllEqual(composition, p) == \A i \in 1..Len(composition) : composition[i] = p

Sounded(a) == a # NO_EVENT /\ a # NOTE_OFF

(* The indices of the maximal backward run that starts at the second to    *)
(* last element and holds only action, hold and rest codes.                *)
RunIndices(composition, action) ==
    {i \in 1..(Len(composition) - 1) :
        \A j \in i..(Len(composition) - 1) :
            composition[j] \in {action, NO_EVENT, NOTE_OFF}}

RunCount(composition, action) ==
    Cardinality({i \in RunIndices(composition, action) :
                    composition[i] = action})

RunInterleaved(composition, action) ==
    \E i \in RunIndices(composition, action) :
        composition[i] \in {NO_EVENT, NOTE_OFF} \ {action}

(* C5 as stated: five entries of a sounded pitch p and action p are        *)
(* excessive, four or fewer are not.                                       *)
C5_FiveEntriesExcessive ==
    (last.op = "detect_repeating_notes" /\ Sounded(last.action)
        /\ AllEqual(self.composition, last.action)) =>
        /\ Len(self.composition) = 5 => last.value = TRUE
        /\ Len(self.composition) <= 4 => last.value = FALSE

(* C5 amended: with the action already appended, six or more entries of a  *)
(* sounded pitch p are excessive and five or fewer are not.                *)
C5_SixEntriesExcessive ==
    (last.op = "detect_repeating_notes" /\ Sounded(last.action)
        /\ AllEqual(self.composition, last.action)) =>
        /\ Len(self.composition) >= 6 => last.value = TRUE
        /\ Len(self.composition) <= 5 => last.value = FALSE

(* C5 witness: six entries of a sounded pitch, found excessive.            *)
C5_Witness ==
    /\ last.op = "detect_repeating_notes" /\ Sounded(last.action)
    /\ AllEqual(self.composition, last.action)
    /\ Len(self.composition) = 6 /\ last.value = TRUE

(* C9: the verdict is (action = NOTE_OFF and n > 1) or (not interleaved    *)
(* and n > 4) or (interleaved and n > 6), for n and interleaved of the     *)
(* backward run; the last branch is never entered; the composition stays.  *)
C9_RepeatVerdict ==
    last.op = "detect_repeating_notes" =>
        LET n == RunCount(self.composition, last.action)
            interleaved == RunInterleaved(self.composition, last.action)
        IN  /\ last.value <=>
                   \/ last.action = NOTE_OFF /\ n > 1
                   \/ ~interleaved /\ n > 4
                   \/ interleaved /\ n > 6
            /\ last.parts # "else"
            /\ self.composition = played

(* C9 witness: seven repeats of a sounded pitch with a hold or rest among  *)
(* them, found excessive.                                                  *)
C9_Witness ==
    /\ last.op = "detect_repeating_notes" /\ Sounded(last.action)
    /\ RunInterleaved(self.composition, last.action)
    /\ RunCount(self.composition, last.action) = 7
    /\ last.value = TRUE

----------------------------------------------------------------------------
(* Properties of the motif detectors (SpecMotif).                          *)

(* The trailing window of bar_length elements.                             *)
Window(composition, bar_length) ==
    SubSeq(composition, Len(composition) - bar_length + 1, Len(composition))

(* The window's content also stands at offset i (0-based).                 *)
OccursAt(composition, bar_length, i) ==
    \A j \in 1..bar_length :
        composition[i + j] = composition[Len(composition) - bar_length + j]

(* The number of distinct sounded values in a list.                        *)
DistinctSounded(w) ==
    Cardinality({x \in 0..(NUM_CLASSES - 1) :
                    Sounded(x) /\ \E i \in 1..Len(w) : w[i] = x})

(* The list with the elements at i and j exchanged.                        *)
Swap(w, i, j) ==
    [k \in 1..Len(w) |-> IF k = i THEN w[j] ELSE IF k = j THEN w[i] ELSE w[k]]

(* C3: detect_repeated_motif returns (true, motif) iff the composition has *)
(* a bar, its last bar is a motif, and the motif stands at an offset i in  *)
(* 0 .. len - 2 * bar_length; otherwise (false, none).                     *)
C3_RepeatedMotif ==
    last.op = "detect_repeated_motif" =>
        LET c == self.composition
            b == last.bar_length
            repeats ==
                /\ Len(c) >= b
                /\ ~detect_last_motif(c, b)[1].is_none
                /\ \E i \in 0..(Len(c) - 2 * b) : OccursAt(c, b, i)
        IN  last.value =
                (IF repeats THEN <<TRUE, Some(Window(c, b))>>
                 ELSE <<FALSE, None>>)

(* C3 witness: a repeat is found.                                          *)
C3_Witness ==
    /\ last.op = "detect_repeated_motif"
    /\ last.value[1] = TRUE
    /\ Len(self.composition) = 2 * last.bar_length

(* C4: detect_last_motif returns (none, 0) below one bar, else (w, d) for  *)
(* d >= 3 and (none, d) for d < 3, d the distinct sounded values of the    *)
(* window w; moving a hold or rest inside the window leaves d as it is.    *)
C4_LastMotif ==
    last.op = "detect_last_motif" =>
        LET c == self.composition
            b == last.bar_length
            d == DistinctSounded(Window(c, b))
        IN  IF Len(c) < b THEN last.value = <<None, 0>>
            ELSE /\ last.value =
                        (IF d >= 3 THEN <<Some(Window(c, b)), d>>
                         ELSE <<None, d>>)
                 /\ \A i, j \in (Len(c) - b + 1)..Len(c) :
                        ~Sounded(c[i]) =>
                            detect_last_motif(Swap(c, i, j), b)[2]
                                = last.value[2]

(* C4 witness: a motif whose window holds a hold or a rest.                *)
C4_Witness ==
    /\ last.op = "detect_last_motif"
    /\ ~last.value[1].is_none
    /\ \E i \in 1..Len(last.value[1].list) : ~Sounded(last.value[1].list[i])

(* C10: reward_repeated_motif is 0 whenever fewer than 2 * bar_length      *)
(* notes have been played.                                                 *)
C10_NoRepeatBeforeTwoBars ==
    (last.op = "reward_repeated_motif" /\ self.beat < 2 * last.bar_length) =>
        last.value = 0

(* C10 witness: one note short of two bars, the last bar is a motif that   *)
(* also stands earlier, overlapping itself, and the reward is 0.           *)
C10_Witness ==
    /\ last.op = "reward_repeated_motif"
    /\ self.beat = 2 * last.bar_length - 1
    /\ ~detect_last_motif(self.composition, last.bar_length)[1].is_none
    /\ OccursAt(self.composition, last.bar_length, 0)
    /\ last.value = 0

----------------------------------------------------------------------------
(* Properties of the interval classifier (SpecInterval).                   *)

(* Every element before the last is a hold or a rest.                      *)
NoSoundedBefore(composition) ==
    \A i \in 1..(Len(composition) - 1) : ~Sounded(composition[i])

(* The category detect_sequential_interval gives action b after a.         *)
Category(a, b) == detect_sequential_interval(<<a, b>>, b).value[1]

(* C6 as stated: for sounded a and b the category of b after a equals the  *)
(* category of a after b.                                                  *)
C6_Symmetric ==
    (last.op = "detect_sequential_interval" /\ last.exc = "none"
        /\ Sounded(last.action) /\ Sounded(last.value[3])) =>
        last.value[1] = Category(last.action, last.value[3])

(* a and b are a fifth apart with one of them a C or G and the other not,  *)
(* or a third apart with one of them a C or E and the other not.           *)
OneSidedInKey(a, b) ==
    \/ /\ Abs(a - b) = FIFTH
       /\ (a \in c_notes \cup g_notes) # (b \in c_notes \cup g_notes)
    \/ /\ Abs(a - b) = THIRD
       /\ (a \in c_notes \cup e_notes) # (b \in c_notes \cup e_notes)

(* C6 amended: the category is symmetric unless the pair is one-sidedly    *)
(* in key; a C and the G above it are in-key fifths in both orders.        *)
C6_SymmetricUnlessOneSided ==
    (last.op = "detect_sequential_interval" /\ last.exc = "none"
        /\ Sounded(last.action) /\ Sounded(last.value[3])) =>
        /\ ~OneSidedInKey(last.value[3], last.action) =>
               last.value[1] = Category(last.action, last.value[3])
        /\ (\E k \in 1..3 : {last.action, last.value[3]}
                                = {12 * k - 10, 12 * k - 3}) =>
               /\ last.value[1] = IN_KEY_FIFTH
               /\ Category(last.action, last.value[3]) = IN_KEY_FIFTH

(* C6 witness: G classified after C across a hold.                         *)
C6_Witness ==
    /\ last.op = "detect_sequential_interval" /\ last.exc = "none"
    /\ self.composition = <<C_MAJOR_TONIC, NO_EVENT, 21>>
    /\ last.value = <<IN_KEY_FIFTH, 21, C_MAJOR_TONIC>>

(* C7: with no sounded note before the action (the action alone included)  *)
(* detect_sequential_interval returns category 0 and does not fail, and    *)
(* reward_preferred_intervals returns 0.                                   *)
C7_NoIntervalNeverFails ==
    (Len(self.composition) >= 1 /\ NoSoundedBefore(self.composition)) =>
        /\ last.op = "detect_sequential_interval" =>
               (last.exc = "none" /\ last.value[1] = 0)
        /\ last.op = "reward_preferred_intervals" =>
               (last.exc = "none" /\ last.value = 0)

====
